---- MODULE Spec2Model ----
(***************************************************************************)
(* A model of the n8n Node Ingestion API (casperpijl/nodes-api):           *)
(*   app/deps.py            ingest_authed, the bearer-token check          *)
(*   app/routers/ingest.py  POST /ingest/workflow-run, POST /ingest/approval*)
(*   app/routers/render.py  POST /render/pdf                               *)
(* Every request runs as its own task with its own database session; the   *)
(* tasks interleave at the awaits (each database round trip, each call of  *)
(* the rendering engine).  A session's uncommitted rows are kept in tx     *)
(* and reach the tables only at db.commit().                               *)
(***************************************************************************)
EXTENDS Integers, Sequences, FiniteSets, TLC

VARIABLES
    workflows,        \* committed rows of table workflows
    workflow_runs,    \* committed rows of table workflow_runs
    approvals,        \* committed rows of table approvals
    approval_assets,  \* committed rows of table approval_assets
    approval_events,  \* committed rows of table approval_events
    nextId,           \* the id sequence of each table
    req,              \* per request slot: position, inputs, locals, session
    started           \* number of requests received so far

tables == <<workflows, workflow_runs, approvals, approval_assets, approval_events>>
vars == <<workflows, workflow_runs, approvals, approval_assets, approval_events,
          nextId, req, started>>

(***************************************************************************)
(* Bounds of the model.                                                    *)
(***************************************************************************)
MaxRequests == 2     \* requests received in one behaviour
MaxAssets == 2       \* longest assets list of an approval payload

\* The request tasks that may be in flight at the same time.
Slots == {"s1", "s2"}

(***************************************************************************)
(* Optional values: None is <<>>, a present value x is <<x>>.               *)
(***************************************************************************)
None == <<>>
Some(x) == <<x>>

(***************************************************************************)
(* Strings are sequences of one-character strings, so that str.split and   *)
(* str.lower are computed rather than assumed.                             *)
(***************************************************************************)
Lower(c) ==
    CASE c = "B" -> "b" [] c = "E" -> "e" [] c = "A" -> "a" [] c = "R" -> "r"
      [] c = "S" -> "s" [] c = "I" -> "i" [] c = "C" -> "c" [] c = "K" -> "k"
      [] OTHER -> c

LowerStr(s) == [i \in 1..Len(s) |-> Lower(s[i])]

\* str.split(" "): cut at every single space, keeping empty pieces.
Split(s) ==
    LET F[i \in 0..Len(s)] ==
            IF i = 0 THEN << <<>> >>
            ELSE LET p == F[i - 1]
                 IN  IF s[i] = " " THEN Append(p, <<>>)
                     ELSE [p EXCEPT ![Len(p)] = Append(@, s[i])]
    IN  F[Len(s)]

bearer == <<"b", "e", "a", "r", "e", "r">>

(***************************************************************************)
(* Table ingest_tokens: read by the API, never written.                    *)
(***************************************************************************)
ingest_tokens ==
    { [token |-> <<"k", "1">>, org_id |-> "orgA", name |-> "n8n-a", is_active |-> TRUE],
      [token |-> <<"k", "2">>, org_id |-> "orgB", name |-> "n8n-b", is_active |-> TRUE],
      [token |-> <<"k", "3">>, org_id |-> "orgA", name |-> "old-a", is_active |-> FALSE] }

Unauthenticated == [ok |-> FALSE, org_id |-> "", token_name |-> ""]

\* Lines 20-35: the token of a header "Bearer <token>", None for any other header.
HeaderToken(header) ==
    IF header = None \/ header[1] = <<>> THEN None
    ELSE LET parts == Split(header[1])
         IN  IF Len(parts) # 2 \/ LowerStr(parts[1]) # bearer THEN None
             ELSE Some(parts[2])

\* The token lookup without the is_active condition.
TokenRows_Inactive(token) == {t \in ingest_tokens : t.token = token}

\* Lines 38-44: SELECT org_id, name FROM ingest_tokens
\*              WHERE token = :token AND is_active = TRUE
TokenRows(token) == {t \in ingest_tokens : t.token = token /\ t.is_active}

\* ingest_authed: the identity behind the header, or a 401.
ingest_authed(header) ==
    LET token == HeaderToken(header)
    IN  IF token = None THEN Unauthenticated
        ELSE LET rows == TokenRows(token[1])
             IN  IF rows = {} THEN Unauthenticated
                 ELSE LET row == CHOOSE t \in rows : TRUE
                      IN  [ok |-> TRUE, org_id |-> row.org_id, token_name |-> row.name]

(***************************************************************************)
(* Request inputs.                                                         *)
(***************************************************************************)
Kinds == {"workflow_run", "approval", "render"}

valid_statuses == {"success", "failed", "running"}
valid_types == {"order", "linkedin_post", "gmail_reply"}

\* The assets a payload may list: the first n of these, n up to MaxAssets.
AssetPool == <<"html", "pdf", "csv", "png">>

AssetLists == {SubSeq(AssetPool, 1, n) : n \in 0..MaxAssets}

EmptyPayload ==
    [workflow_name |-> "", status |-> "", started_at |-> 0, ended_at |-> None,
     type |-> "", assets |-> <<>>]

RunPayloads(names, statuses, starts, ends) ==
    { [EmptyPayload EXCEPT !.workflow_name = n, !.status = s,
                           !.started_at = a, !.ended_at = e] :
        n \in names, s \in statuses, a \in starts, e \in ends }

ApprovalPayloads(types, lists) ==
    { [EmptyPayload EXCEPT !.type = t, !.assets = l] : t \in types, l \in lists }

Hdr(scheme, sep, token) == Some(scheme \o sep \o token)

\* Headers of well-behaved clients, one per token of ingest_tokens.
CanonicalHeaders ==
    { Hdr(<<"B", "e", "a", "r", "e", "r">>, <<" ">>, <<"k", n>>) : n \in {"1", "2", "3"} }

\* The headers of the two active tokens.
ActiveHeaders ==
    { Hdr(<<"B", "e", "a", "r", "e", "r">>, <<" ">>, <<"k", n>>) : n \in {"1", "2"} }

\* Headers of every shape: missing, empty, the scheme in any case, another
\* scheme, no space, two spaces, a tab, a space before or after, an unknown,
\* an inactive or an empty token, a token in the wrong case.
AllHeaders ==
    {None, Some(<<>>)}
    \cup { Hdr(s, sep, t) :
             s \in { <<"B", "e", "a", "r", "e", "r">>, <<"b", "e", "a", "r", "e", "r">>,
                     <<"B", "E", "A", "R", "E", "R">>, <<"B", "a", "s", "i", "c">> },
             sep \in { <<" ">>, <<" ", " ">>, <<>> },
             t \in { <<"k", "1">>, <<"k", "2">>, <<"k", "3">>, <<"k", "9">>, <<>> } }
    \cup { Hdr(<<"B", "e", "a", "r", "e", "r">>, <<" ">>, <<"k", "1", " ">>),
           Hdr(<<" ", "B", "e", "a", "r", "e", "r">>, <<" ">>, <<"k", "1">>),
           Hdr(<<"B", "e", "a", "r", "e", "r">>, <<"\t">>, <<"k", "1">>),
           Hdr(<<"B", "e", "a", "r", "e", "r">>, <<" ">>, <<"K", "1">>),
           Hdr(<<"B", "e", "a", "r", "e", "r", "s">>, <<" ">>, <<"k", "1">>),
           Hdr(<<>>, <<>>, <<"k", "1">>) }

(***************************************************************************)
(* duration_ms = int((ended_at - started_at).total_seconds() * 1000).      *)
(* Timestamps are whole microseconds, as datetime keeps them.  The         *)
(* subtraction is exact; total_seconds() is the microseconds divided by    *)
(* 10**6 as a double, the product with 1000 is a double again, and int()   *)
(* drops the fraction.  A double is kept as its 53 mantissa bits (first    *)
(* bit 1, most significant first) and the exponent of that first bit.      *)
(***************************************************************************)
MantissaBits == 53
MicrosPerSecond == 1000000
MillisPerSecond == 1000
\* The arithmetic below works on ChunkBits bits at a time.
ChunkBits == 9

Min(a, b) == IF a < b THEN a ELSE b

RECURSIVE Pow2(_)
Pow2(n) == IF n = 0 THEN 1 ELSE 2 * Pow2(n - 1)

\* The binary digits of n, most significant first (none for 0).
RECURSIVE BitsOf(_)
BitsOf(n) == IF n = 0 THEN <<>> ELSE Append(BitsOf(n \div 2), n % 2)

\* The last `width` binary digits of n.
BitsFixed(n, width) == [i \in 1..width |-> (n \div Pow2(width - i)) % 2]

RECURSIVE ValueOfBits(_, _)
ValueOfBits(bits, n) ==
    IF n = 0 THEN 0 ELSE 2 * ValueOfBits(bits, n - 1) + bits[n]

\* The first `count` bits of the binary fraction rem / den (rem < den), and the
\* remainder left after them.
RECURSIVE FractionBits(_, _, _, _)
FractionBits(rem, den, count, acc) ==
    IF count = 0 THEN [bits |-> acc, rem |-> rem]
    ELSE LET w == Min(ChunkBits, count)
             scaled == rem * Pow2(w)
         IN  FractionBits(scaled % den, den, count - w,
                          acc \o BitsFixed(scaled \div den, w))

\* The number of leading zero bits of the binary fraction rem / den, rem > 0.
RECURSIVE LeadingZeros(_, _)
LeadingZeros(rem, den) ==
    IF 2 * rem >= den THEN 0 ELSE 1 + LeadingZeros(2 * rem, den)

\* bits + 1, as a bit sequence of the same length, with the carry out.
Increment(bits) ==
    LET zeros == {i \in 1..Len(bits) : bits[i] = 0}
    IN  IF zeros = {} THEN [bits |-> [i \in 1..Len(bits) |-> 0], carry |-> 1]
        ELSE LET p == CHOOSE i \in zeros : \A j \in zeros : j <= i
             IN  [bits |-> [i \in 1..Len(bits) |->
                               IF i < p THEN bits[i] ELSE IF i = p THEN 1 ELSE 0],
                  carry |-> 0]

\* Round to nearest, ties to even: `bits` starts with a 1 and holds at least
\* MantissaBits + 1 bits, `exp` is the exponent of its first bit, `sticky` says
\* whether anything nonzero follows the bits given.
RoundToDouble(bits, exp, sticky) ==
    LET m == SubSeq(bits, 1, MantissaBits)
        guard == bits[MantissaBits + 1]
        rest == sticky \/ \E i \in (MantissaBits + 2)..Len(bits) : bits[i] = 1
        up == guard = 1 /\ (rest \/ m[MantissaBits] = 1)
        inc == Increment(m)
    IN  IF ~up THEN [m |-> m, exp |-> exp]
        ELSE IF inc.carry = 0 THEN [m |-> inc.bits, exp |-> exp]
        ELSE [m |-> <<1>> \o SubSeq(inc.bits, 1, MantissaBits - 1), exp |-> exp + 1]

\* The double nearest to num / den, for num, den > 0.
DivideToDouble(num, den) ==
    LET whole == BitsOf(num \div den)
        rem == num % den
    IN  IF whole # <<>>
        THEN LET f == FractionBits(rem, den, MantissaBits + 1, <<>>)
             IN  RoundToDouble(whole \o f.bits, Len(whole) - 1, f.rem # 0)
        ELSE LET z == LeadingZeros(rem, den)
                 f == FractionBits(rem * Pow2(z), den, MantissaBits + 1, <<>>)
             IN  RoundToDouble(f.bits, -(z + 1), f.rem # 0)

\* bits * k as a bit sequence (leading zeros kept), the last bits first.
RECURSIVE TimesSmall(_, _, _, _, _)
TimesSmall(bits, k, left, carry, acc) ==
    IF left = 0 THEN BitsOf(carry) \o acc
    ELSE LET w == Min(ChunkBits, left)
             t == ValueOfBits(SubSeq(bits, left - w + 1, left), w) * k + carry
         IN  TimesSmall(bits, k, left - w, t \div Pow2(w),
                        BitsFixed(t % Pow2(w), w) \o acc)

\* The double nearest to d * k, for a whole number k > 0.
MultiplyDouble(d, k) ==
    LET product == TimesSmall(d.m, k, MantissaBits, 0, <<>>)
        padded == product \o <<0>>
    IN  RoundToDouble(padded, d.exp + (Len(product) - MantissaBits), FALSE)

\* int(d): the whole part of a positive double.
TruncateDouble(d) ==
    IF d.exp < 0 THEN 0 ELSE ValueOfBits(d.m, d.exp + 1)

\* int(td.total_seconds() * 1000) for a timedelta of `micros` microseconds.
DurationOfMicros(micros) ==
    LET magnitude == IF micros < 0 THEN -micros ELSE micros
        ms == TruncateDouble(
                  MultiplyDouble(DivideToDouble(magnitude, MicrosPerSecond),
                                 MillisPerSecond))
    IN  IF micros = 0 THEN 0 ELSE IF micros < 0 THEN -ms ELSE ms

\* Lines 91-93: None unless ended_at is given.
duration_ms(started_at, ended_at) ==
    IF ended_at = None THEN None
    ELSE Some(DurationOfMicros(ended_at[1] - started_at))


(***************************************************************************)
(* A request slot: the position of its task, its inputs, the locals of the *)
(* handler, the rows of its session, and its response once it is done.     *)
(***************************************************************************)
EmptyTx ==
    [workflows |-> {}, workflow_runs |-> {}, approvals |-> {},
     approval_assets |-> {}, approval_events |-> {}]

NoResponse == [status |-> 0, workflow_id |-> 0, workflow_run_id |-> 0, approval_id |-> 0]

IdleReq ==
    [pc |-> "idle", kind |-> "", header |-> None, payload |-> EmptyPayload,
     auth |-> Unauthenticated, tx |-> EmptyTx,
     workflow_id |-> 0, created |-> FALSE, approval_id |-> 0, next_asset |-> 1,
     browser |-> "unbound", context |-> "unbound", releases |-> <<>>,
     failed |-> "none", resp |-> NoResponse]

Init ==
    /\ workflows = {}
    /\ workflow_runs = {}
    /\ approvals = {}
    /\ approval_assets = {}
    /\ approval_events = {}
    /\ nextId = [workflows |-> 1, workflow_runs |-> 1, approvals |-> 1,
                 approval_assets |-> 1, approval_events |-> 1]
    /\ req = [r \in Slots |-> IdleReq]
    /\ started = 0

Set(r, new) == req' = [req EXCEPT ![r] = new]

\* get_session: the session of a request is closed when the request ends,
\* whether or not it committed; rows it had not committed are gone.
CloseSession(q) == [q EXCEPT !.tx = EmptyTx]

\* raise HTTPException(status_code=code): the request ends with that status.
Respond(q, code) ==
    [CloseSession(q) EXCEPT !.pc = "done", !.resp = [NoResponse EXCEPT !.status = code]]

\* An exception that is no HTTPException leaves the request: a generic 500.
Raise(q, where) == [Respond(q, 500) EXCEPT !.failed = where]

(***************************************************************************)
(* The first lines of each handler, up to its first await.                 *)
(***************************************************************************)
\* Lines 52-58 left out: every status is taken.
RunValidate_Missing(q) == [q EXCEPT !.pc = "wf_lookup"]

\* Lines 52-58: the status is validated before the database is touched.
RunValidate(q) ==
    IF q.payload.status \notin valid_statuses THEN Respond(q, 400)
    ELSE [q EXCEPT !.pc = "wf_lookup"]

\* Lines 224-230: the type is validated before the database is touched.
ApprovalValidate(q) ==
    IF q.payload.type \notin valid_types THEN Respond(q, 400)
    ELSE [q EXCEPT !.pc = "ap_insert"]

\* The route's handler, called with the identity ingest_authed returned.
Handler(q) ==
    CASE q.kind = "workflow_run" -> RunValidate(q)
      [] q.kind = "approval" -> ApprovalValidate(q)
      [] OTHER -> [q EXCEPT !.pc = "render_enter"]

\* Depends(ingest_authed): a 401 ends the request before the handler; the token
\* lookup is a database call and may raise instead of answering.
Dispatch(q, lookup_ok) ==
    IF HeaderToken(q.header) # None /\ ~lookup_ok THEN Raise(q, "token_lookup")
    ELSE LET a == ingest_authed(q.header)
         IN  IF a.ok THEN Handler([q EXCEPT !.auth = a]) ELSE Respond(q, 401)

\* A request arrives on a free task and runs to its first await in the handler.
Receive(r, headers, kinds, payloads) ==
    /\ req[r].pc \in {"idle", "done"}
    /\ started < MaxRequests
    /\ \E h \in headers, k \in kinds, lookup_ok \in BOOLEAN :
          \E p \in payloads[k] :
             Set(r, Dispatch([IdleReq EXCEPT !.kind = k, !.header = h, !.payload = p],
                             lookup_ok))
    /\ started' = started + 1
    /\ UNCHANGED <<tables, nextId>>

(***************************************************************************)
(* The session of a request: the rows it inserted and has not committed.   *)
(***************************************************************************)
\* db.commit(): the session's rows become visible to every session.
Commit(r) ==
    /\ workflows' = workflows \cup req[r].tx.workflows
    /\ workflow_runs' = workflow_runs \cup req[r].tx.workflow_runs
    /\ approvals' = approvals \cup req[r].tx.approvals
    /\ approval_assets' = approval_assets \cup req[r].tx.approval_assets
    /\ approval_events' = approval_events \cup req[r].tx.approval_events

\* INSERT ... RETURNING id: the row takes the next id of its table's sequence; a
\* sequence value is not given back when the transaction is rolled back.
Insert(q, table, row) ==
    [q EXCEPT !.tx[table] = @ \cup {[row EXCEPT !.id = nextId[table]]}]

Advance(table) == nextId' = [nextId EXCEPT ![table] = @ + 1]

(***************************************************************************)
(* POST /ingest/workflow-run                                               *)
(***************************************************************************)
\* The lookup matching the name alone.
WorkflowRows_AnyOrg(r) ==
    {w \in workflows \cup req[r].tx.workflows : w.name = req[r].payload.workflow_name}

\* Lines 62-71: SELECT id FROM workflows WHERE org_id = :org_id AND name = :name.
WorkflowRows(r) ==
    {w \in workflows \cup req[r].tx.workflows :
        w.org_id = req[r].auth.org_id /\ w.name = req[r].payload.workflow_name}

\* The branch of line 73 always taking the insert.
WorkflowLookup_AlwaysInsert(r) ==
    /\ req[r].pc = "wf_lookup"
    /\ Set(r, [req[r] EXCEPT !.pc = "wf_insert"])
    /\ UNCHANGED <<tables, nextId, started>>

\* Lines 68-75: LIMIT 1 without ORDER BY returns any one of the matching rows.
WorkflowLookup(r) ==
    /\ req[r].pc = "wf_lookup"
    /\ IF WorkflowRows(r) # {}
       THEN \E w \in WorkflowRows(r) :
               Set(r, [req[r] EXCEPT !.pc = "run_insert", !.workflow_id = w.id])
       ELSE Set(r, [req[r] EXCEPT !.pc = "wf_insert"])
    /\ UNCHANGED <<tables, nextId, started>>

\* Lines 77-87: INSERT INTO workflows (org_id, name, active) ... RETURNING id.
WorkflowInsert(r) ==
    /\ req[r].pc = "wf_insert"
    /\ Set(r, [Insert(req[r], "workflows",
                      [id |-> 0, org_id |-> req[r].auth.org_id,
                       name |-> req[r].payload.workflow_name, active |-> TRUE])
                 EXCEPT !.pc = "wf_commit", !.workflow_id = nextId.workflows,
                        !.created = TRUE])
    /\ Advance("workflows")
    /\ UNCHANGED <<tables, started>>

\* Line 88 left out: the new workflow stays in the transaction of the run.
WorkflowCommit_Skipped(r) ==
    /\ req[r].pc = "wf_commit"
    /\ Set(r, [req[r] EXCEPT !.pc = "run_insert"])
    /\ UNCHANGED <<tables, nextId, started>>

\* Line 88: await db.commit() right after the workflow insert.
WorkflowCommit(r) ==
    /\ req[r].pc = "wf_commit"
    /\ Commit(r)
    /\ Set(r, [req[r] EXCEPT !.pc = "run_insert", !.tx = EmptyTx])
    /\ UNCHANGED <<nextId, started>>

\* Lines 90-138: the duration, then INSERT INTO workflow_runs ... RETURNING id.
RunInsert(r) ==
    /\ req[r].pc = "run_insert"
    /\ Set(r, [Insert(req[r], "workflow_runs",
                      [id |-> 0, org_id |-> req[r].auth.org_id,
                       workflow_id |-> req[r].workflow_id,
                       started_at |-> req[r].payload.started_at,
                       ended_at |-> req[r].payload.ended_at,
                       status |-> req[r].payload.status,
                       duration_ms |-> duration_ms(req[r].payload.started_at,
                                                   req[r].payload.ended_at)])
                 EXCEPT !.pc = "run_commit",
                        !.resp = [NoResponse EXCEPT !.workflow_run_id = nextId.workflow_runs]])
    /\ Advance("workflow_runs")
    /\ UNCHANGED <<tables, started>>

\* Lines 139-146: commit, then the response with both ids.
RunCommit(r) ==
    /\ req[r].pc = "run_commit"
    /\ Commit(r)
    /\ Set(r, [CloseSession(req[r]) EXCEPT !.pc = "done",
                             !.resp = [@ EXCEPT !.status = 200,
                                                !.workflow_id = req[r].workflow_id]])
    /\ UNCHANGED <<nextId, started>>

(***************************************************************************)
(* POST /ingest/approval                                                   *)
(***************************************************************************)
AfterApproval(q) ==
    [q EXCEPT !.pc = IF q.payload.assets # <<>> THEN "asset_insert" ELSE "event_insert",
              !.approval_id = nextId.approvals, !.next_asset = 1]

ApprovalRow(r) ==
    [id |-> 0, org_id |-> req[r].auth.org_id, type |-> req[r].payload.type,
     status |-> "pending"]

\* The approval insert followed by a commit of its own, as the workflow insert has.
ApprovalInsert_Committed(r) ==
    /\ req[r].pc = "ap_insert"
    /\ approvals' = approvals \cup {[ApprovalRow(r) EXCEPT !.id = nextId.approvals]}
    /\ Set(r, AfterApproval(req[r]))
    /\ Advance("approvals")
    /\ UNCHANGED <<workflows, workflow_runs, approval_assets, approval_events, started>>

\* Lines 232-264: INSERT INTO approvals (..., status 'pending', ...) RETURNING id.
ApprovalInsert(r) ==
    /\ req[r].pc = "ap_insert"
    /\ Set(r, AfterApproval(Insert(req[r], "approvals", ApprovalRow(r))))
    /\ Advance("approvals")
    /\ UNCHANGED <<tables, started>>

\* The loop of lines 291-301 stopping one asset early.
AssetsDone_OffByOne(q) == q.next_asset + 1 >= Len(q.payload.assets)

\* Line 291: for asset in payload.assets, left after the last one.
AssetsDone(q) == q.next_asset = Len(q.payload.assets)

\* Lines 291-301: one INSERT INTO approval_assets per asset, in list order.
AssetInsert(r) ==
    /\ req[r].pc = "asset_insert"
    /\ Set(r, [Insert(req[r], "approval_assets",
                      [id |-> 0, approval_id |-> req[r].approval_id,
                       role |-> req[r].payload.assets[req[r].next_asset]])
                 EXCEPT !.pc = IF AssetsDone(req[r]) THEN "event_insert" ELSE "asset_insert",
                        !.next_asset = @ + 1])
    /\ Advance("approval_assets")
    /\ UNCHANGED <<tables, started>>

\* Lines 303-316: the 'created' event with {type, asset_count, token_name}.
EventInsert(r) ==
    /\ req[r].pc = "event_insert"
    /\ Set(r, [Insert(req[r], "approval_events",
                      [id |-> 0, approval_id |-> req[r].approval_id, event |-> "created",
                       type |-> req[r].payload.type,
                       asset_count |-> Len(req[r].payload.assets),
                       token_name |-> req[r].auth.token_name])
                 EXCEPT !.pc = "ap_commit"])
    /\ Advance("approval_events")
    /\ UNCHANGED <<tables, started>>

\* Lines 318-324: the only commit of the handler, then the response.
ApprovalCommit(r) ==
    /\ req[r].pc = "ap_commit"
    /\ Commit(r)
    /\ Set(r, [CloseSession(req[r]) EXCEPT !.pc = "done",
                             !.resp = [NoResponse EXCEPT !.status = 200,
                                                         !.approval_id = req[r].approval_id]])
    /\ UNCHANGED <<nextId, started>>

(***************************************************************************)
(* A database call of a handler raises (the database is unreachable, the   *)
(* statement is refused, the process dies): the exception leaves the       *)
(* handler, the client gets a 500, the session is closed without a commit. *)
(***************************************************************************)
DbSteps ==
    {"wf_lookup", "wf_insert", "wf_commit", "run_insert", "run_commit",
     "ap_insert", "asset_insert", "event_insert", "ap_commit"}

Fail(r) ==
    /\ req[r].pc \in DbSteps
    /\ Set(r, Raise(req[r], req[r].pc))
    /\ UNCHANGED <<tables, nextId, started>>

(***************************************************************************)
(* POST /render/pdf                                                        *)
(***************************************************************************)
RenderStages == {"render_enter", "launch", "new_context", "new_page", "set_content", "pdf"}

\* Lines 49-56 and 74: the engine is imported and started, or the request ends.
RenderEnter(r) ==
    /\ req[r].pc = "render_enter"
    /\ \E ok \in BOOLEAN :
          IF ok THEN Set(r, [req[r] EXCEPT !.pc = "launch"])
          ELSE Set(r, Raise(req[r], "render_enter"))
    /\ UNCHANGED <<tables, nextId, started>>

\* An awaited call of the try block: it returns, or raises into the finally block.
RenderCall(r, stage, next, acquired) ==
    /\ req[r].pc = stage
    /\ \E ok \in BOOLEAN :
          IF ok THEN Set(r, [acquired EXCEPT !.pc = next])
          ELSE Set(r, [req[r] EXCEPT !.pc = "ctx_close", !.failed = stage])
    /\ UNCHANGED <<tables, nextId, started>>

\* Line 76: browser = await p.chromium.launch(...)
Launch(r) == RenderCall(r, "launch", "new_context", [req[r] EXCEPT !.browser = "open"])

\* Line 77: context = await browser.new_context()
NewContext(r) == RenderCall(r, "new_context", "new_page", [req[r] EXCEPT !.context = "open"])

\* Line 78: page = await context.new_page()
NewPage(r) == RenderCall(r, "new_page", "set_content", req[r])

\* Line 79: await page.set_content(body.html, wait_until=wait_until)
SetContent(r) == RenderCall(r, "set_content", "pdf", req[r])

\* Line 80: pdf_bytes = await page.pdf(...)
Pdf(r) == RenderCall(r, "pdf", "ctx_close", req[r])

\* x.close() under try/except Exception: nothing is released through a name that
\* was never bound (the NameError is swallowed like any other exception); a
\* close that raises leaves the resource open.
Release(q, what, ok) ==
    IF q[what] = "unbound" THEN q
    ELSE [q EXCEPT ![what] = IF ok THEN "closed" ELSE "open",
                   !.releases = Append(@, what)]

\* Lines 82-85 without the inner try: a failing context.close() leaves the finally block.
CtxClose_Escalating(r) ==
    /\ req[r].pc = "ctx_close"
    /\ \E ok \in BOOLEAN :
          Set(r, [Release(req[r], "context", ok)
                    EXCEPT !.pc = IF ok \/ req[r].context = "unbound"
                                  THEN "browser_close" ELSE "render_exit",
                           !.failed = IF ok \/ req[r].context = "unbound"
                                      THEN @ ELSE "ctx_close"])
    /\ UNCHANGED <<tables, nextId, started>>

\* Lines 82-85: try: await context.close() / except Exception: pass
CtxClose(r) ==
    /\ req[r].pc = "ctx_close"
    /\ \E ok \in BOOLEAN :
          Set(r, [Release(req[r], "context", ok) EXCEPT !.pc = "browser_close"])
    /\ UNCHANGED <<tables, nextId, started>>

\* Lines 86-89: try: await browser.close() / except Exception: pass
BrowserClose(r) ==
    /\ req[r].pc = "browser_close"
    /\ \E ok \in BOOLEAN :
          Set(r, [Release(req[r], "browser", ok) EXCEPT !.pc = "render_exit"])
    /\ UNCHANGED <<tables, nextId, started>>

\* Lines 81 and 91-106: after the finally block the exception of the try block
\* goes on to the caller; without one the PDF is returned.
RenderReturn(r) ==
    /\ req[r].pc = "render_exit"
    /\ IF req[r].failed # "none" THEN Set(r, Respond(req[r], 500))
       ELSE Set(r, Respond(req[r], 200))
    /\ UNCHANGED <<tables, nextId, started>>

(***************************************************************************)
(* Specifications.                                                         *)
(***************************************************************************)
WorkflowNames == {"sync", "mail"}

RunStep(r) ==
    \/ WorkflowLookup(r)
    \/ WorkflowInsert(r)
    \/ WorkflowCommit(r)
    \/ RunInsert(r)
    \/ RunCommit(r)

ApprovalStep(r) ==
    \/ ApprovalInsert(r)
    \/ AssetInsert(r)
    \/ EventInsert(r)
    \/ ApprovalCommit(r)

RenderStep(r) ==
    \/ RenderEnter(r)
    \/ Launch(r)
    \/ NewContext(r)
    \/ NewPage(r)
    \/ SetContent(r)
    \/ Pdf(r)
    \/ CtxClose(r)
    \/ BrowserClose(r)
    \/ RenderReturn(r)

\* Spec: one request at a time on every protected endpoint, with headers of
\* every shape and payloads that pass and fail validation.
Payloads ==
    [k \in Kinds |->
        CASE k = "workflow_run" ->
                 RunPayloads({"sync"}, {"success", "bogus"}, {0}, {None})
          [] k = "approval" ->
                 ApprovalPayloads({"order", "invalid_type"}, {<<"pdf">>})
          [] OTHER -> {EmptyPayload}]

Next ==
    \/ Receive("s1", AllHeaders, Kinds, Payloads)
    \/ RunStep("s1")
    \/ ApprovalStep("s1")
    \/ RenderStep("s1")
    \/ Fail("s1")

Spec == Init /\ [][Next]_vars

\* SpecRuns: workflow runs reported on two tasks, interleaved at every await.
RunsPayloads ==
    [k \in Kinds |->
        RunPayloads(WorkflowNames, {"success", "bogus"}, {0}, {Some(2500000)})]

NextRuns ==
    \E r \in Slots :
        \/ Receive(r, CanonicalHeaders, {"workflow_run"}, RunsPayloads)
        \/ RunStep(r)
        \/ Fail(r)

SpecRuns == Init /\ [][NextRuns]_vars

\* SpecApprovals: approvals created on two tasks, interleaved at every await.
ApprovalsPayloads ==
    [k \in Kinds |-> ApprovalPayloads({"order"}, AssetLists)]

NextApprovals ==
    \E r \in Slots :
        \/ Receive(r, ActiveHeaders, {"approval"}, ApprovalsPayloads)
        \/ ApprovalStep(r)
        \/ Fail(r)

SpecApprovals == Init /\ [][NextApprovals]_vars

\* SpecSeq: workflow runs reported one after the other, each request ending
\* before the next one starts.
SeqPayloads ==
    [k \in Kinds |->
        RunPayloads(WorkflowNames, {"success", "failed", "bogus"}, {0},
                    {None, Some(2500000)})]

NextSeq ==
    \/ Receive("s1", CanonicalHeaders, {"workflow_run"}, SeqPayloads)
    \/ RunStep("s1")
    \/ Fail("s1")

SpecSeq == Init /\ [][NextSeq]_vars

\* SpecDuration: workflow runs with timestamps a millisecond apart and less,
\* in both orders, and seconds apart.
Timestamps ==
    {0, 400, 500, 999, 1000, 1500, 1600, 2500, 3501, 1001000, 1003000, 2500000}

DurationPayloads ==
    [k \in Kinds |->
        RunPayloads({"sync"}, {"success"}, {0, 1000, 2500},
                    {None} \cup {Some(t) : t \in Timestamps})]

NextDuration ==
    \/ Receive("s1", {Hdr(<<"B", "e", "a", "r", "e", "r">>, <<" ">>, <<"k", "1">>)},
               {"workflow_run"}, DurationPayloads)
    \/ RunStep("s1")

SpecDuration == Init /\ [][NextDuration]_vars

(***************************************************************************)
(* Properties.                                                             *)
(***************************************************************************)
Bearer == <<"B", "e", "a", "r", "e", "r">>

\* The active tokens a header names: a scheme that reads "bearer" whatever its
\* case, one space, and the token up to the end of the header.
AcceptedBy(header) ==
    IF header = None THEN {}
    ELSE LET h == header[1]
         IN  {t \in ingest_tokens :
                 /\ t.is_active
                 /\ Len(h) = Len(bearer) + 1 + Len(t.token)
                 /\ \A i \in 1..Len(bearer) : Lower(h[i]) = bearer[i]
                 /\ h[Len(bearer) + 1] = " "
                 /\ \A i \in 1..Len(t.token) : h[Len(bearer) + 1 + i] = t.token[i]}

Accepted(header) == AcceptedBy(header) # {}

\* The header has the form "Bearer <value>", whatever the value.
WellFormed(header) ==
    /\ header # None
    /\ Len(header[1]) >= Len(bearer) + 1
    /\ \A i \in 1..Len(bearer) : Lower(header[1][i]) = bearer[i]
    /\ header[1][Len(bearer) + 1] = " "
    /\ \A i \in (Len(bearer) + 2)..Len(header[1]) : header[1][i] # " "

Succeeded(q) == q.pc = "done" /\ q.resp.status = 200

AssetsOf(id) == {a \in approval_assets : a.approval_id = id}
EventsOf(id) == {e \in approval_events : e.approval_id = id}

\* The roles of a set of asset rows, in the order of their ids.
RECURSIVE RolesById(_)
RolesById(rows) ==
    IF rows = {} THEN <<>>
    ELSE LET first == CHOOSE x \in rows : \A y \in rows : x.id <= y.id
         IN  <<first.role>> \o RolesById(rows \ {first})

\* The step taken is a step of request r.
StepOf(r) == req'[r] # req[r]

\* C1: an approval is committed whole or not at all.  In every committed state
\* an approval row comes with exactly one 'created' event and with as many
\* assets as the event counts, no asset or event row is without its approval,
\* and a request that is past the approval insert and has not committed, or
\* has failed anywhere, left no row of its approval in the tables.
C1_ApprovalAllOrNothing ==
    /\ \A a \in approvals :
          \E e \in EventsOf(a.id) :
             /\ EventsOf(a.id) = {e}
             /\ e.event = "created"
             /\ Cardinality(AssetsOf(a.id)) = e.asset_count
    /\ \A x \in approval_assets : \E a \in approvals : a.id = x.approval_id
    /\ \A x \in approval_events : \E a \in approvals : a.id = x.approval_id
    /\ \A r \in Slots :
          (/\ req[r].kind = "approval"
           /\ \/ req[r].pc \in {"asset_insert", "event_insert", "ap_commit"}
              \/ req[r].pc = "done" /\ req[r].resp.status = 500)
          => /\ \A a \in approvals : a.id # req[r].approval_id
             /\ AssetsOf(req[r].approval_id) = {}
             /\ EventsOf(req[r].approval_id) = {}

\* A request failed at the event insert, after its approval and both of its
\* assets were inserted, while another approval is committed.
C1_Witness ==
    \E r \in Slots :
        /\ req[r].kind = "approval"
        /\ req[r].pc = "done"
        /\ req[r].failed = "event_insert"
        /\ Len(req[r].payload.assets) = 2
        /\ req[r].approval_id # 0
        /\ approvals # {}

\* C2: the workflows table holds at most one row per (org_id, name).
C2_OneWorkflowPerOrgAndName ==
    \A w1 \in workflows, w2 \in workflows :
        (w1.org_id = w2.org_id /\ w1.name = w2.name) => w1.id = w2.id

\* C3: every workflow, run and approval row a request writes carries the
\* org_id of the active token in its Authorization header, the rows a
\* successful response names do too, and a run references a workflow of its
\* own organization only.
C3_RowsCarryTokenOrg ==
    /\ \A r \in Slots :
          LET orgs == {t.org_id : t \in AcceptedBy(req[r].header)}
          IN  /\ \A w \in req[r].tx.workflows : w.org_id \in orgs
              /\ \A x \in req[r].tx.workflow_runs : x.org_id \in orgs
              /\ \A a \in req[r].tx.approvals : a.org_id \in orgs
              /\ (Succeeded(req[r]) /\ req[r].kind = "workflow_run") =>
                    /\ \E x \in workflow_runs :
                          x.id = req[r].resp.workflow_run_id /\ x.org_id \in orgs
                    /\ \E w \in workflows :
                          w.id = req[r].resp.workflow_id /\ w.org_id \in orgs
              /\ (Succeeded(req[r]) /\ req[r].kind = "approval") =>
                    \E a \in approvals :
                       a.id = req[r].resp.approval_id /\ a.org_id \in orgs
    /\ \A x \in workflow_runs \cup UNION {req[r].tx.workflow_runs : r \in Slots} :
          \A w \in workflows \cup UNION {req[r].tx.workflows : r \in Slots} :
             w.id = x.workflow_id => w.org_id = x.org_id

\* Both organizations reported a run of a workflow of the same name, and each
\* has its own workflow row.
C3_Witness ==
    /\ \E x \in workflow_runs : x.org_id = "orgA"
    /\ \E x \in workflow_runs : x.org_id = "orgB"
    /\ \E w1 \in workflows, w2 \in workflows :
          w1.org_id = "orgA" /\ w2.org_id = "orgB" /\ w1.name = w2.name

\* C4: on every protected endpoint a request whose header is missing, is not
\* "Bearer <value>" or names no active token ends with 401 (with 500 when the
\* token lookup itself raised), never has a row in its session and never
\* changes a table or a sequence; a request that is in its handler, or was
\* answered by it, came with a header naming an active token and runs with
\* that token's organization and name.
C4_Unauthenticated ==
    /\ [](\A r \in Slots :
            req[r].pc # "idle" =>
               /\ ~Accepted(req[r].header) =>
                     /\ req[r].pc = "done"
                     /\ req[r].tx = EmptyTx
                     /\ ~req[r].auth.ok
                     /\ \/ req[r].resp.status = 401
                        \/ /\ req[r].resp.status = 500
                           /\ req[r].failed = "token_lookup"
                           /\ WellFormed(req[r].header)
               /\ (~WellFormed(req[r].header)) => req[r].resp.status = 401
               /\ (req[r].pc # "done" \/ req[r].resp.status \in {200, 400}
                                      \/ req[r].failed \notin {"none", "token_lookup"})
                  => \E t \in AcceptedBy(req[r].header) :
                        req[r].auth = [ok |-> TRUE, org_id |-> t.org_id,
                                       token_name |-> t.name])
    /\ [][\A r \in Slots :
            (StepOf(r) /\ ~Accepted(req'[r].header)) => UNCHANGED <<tables, nextId>>]_vars

\* A render request with the inactive token was turned away with 401 after an
\* approval was committed.
C4_Witness ==
    /\ req["s1"].pc = "done"
    /\ req["s1"].kind = "render"
    /\ req["s1"].header = Hdr(Bearer, <<" ">>, <<"k", "3">>)
    /\ req["s1"].resp.status = 401
    /\ approvals # {}

\* C5: a request with a status or a type outside the allowed values is
\* answered with 400 at once, with nothing in its session; the step that
\* answers 400 changes no table and no sequence; no run with such a status and
\* no approval with such a type is ever in a table.
C5_ValidationFirst ==
    /\ [](/\ \A r \in Slots :
               (/\ Accepted(req[r].header)
                /\ req[r].failed # "token_lookup"
                /\ \/ req[r].kind = "workflow_run"
                      /\ req[r].payload.status \notin valid_statuses
                   \/ req[r].kind = "approval"
                      /\ req[r].payload.type \notin valid_types)
               => /\ req[r].pc = "done"
                  /\ req[r].resp.status = 400
                  /\ req[r].tx = EmptyTx
          /\ \A x \in workflow_runs : x.status \in valid_statuses
          /\ \A a \in approvals : a.type \in valid_types)
    /\ [][\A r \in Slots :
            (StepOf(r) /\ req'[r].pc = "done" /\ req'[r].resp.status = 400)
            => UNCHANGED <<tables, nextId>>]_vars

\* A run with a bad status and a workflow name no row has was answered with
\* 400, after an approval was committed.
C5_Witness ==
    /\ req["s1"].kind = "workflow_run"
    /\ req["s1"].pc = "done"
    /\ req["s1"].resp.status = 400
    /\ \A w \in workflows : w.name # req["s1"].payload.workflow_name
    /\ approvals # {}

\* C6: with runs reported one after the other there is one workflow row per
\* (org_id, name); a successful response names that row and a run row that
\* references it; and the commit of a run adds one run row and no workflow
\* row.
C6_SequentialRuns ==
    /\ [](/\ \A w1 \in workflows, w2 \in workflows :
               (w1.org_id = w2.org_id /\ w1.name = w2.name) => w1.id = w2.id
          /\ \A x \in workflow_runs :
               \E w \in workflows : w.id = x.workflow_id /\ w.org_id = x.org_id
          /\ \A r \in Slots :
               Succeeded(req[r]) =>
                  \E w \in workflows :
                     /\ w.org_id = req[r].auth.org_id
                     /\ w.name = req[r].payload.workflow_name
                     /\ w.id = req[r].resp.workflow_id
                     /\ \E x \in workflow_runs :
                           /\ x.id = req[r].resp.workflow_run_id
                           /\ x.workflow_id = w.id)
    /\ [][\A r \in Slots :
            (req[r].pc = "run_commit" /\ Succeeded(req'[r]))
            => /\ Cardinality(workflow_runs') = Cardinality(workflow_runs) + 1
               /\ workflows' = workflows]_vars

\* The second of two runs of one workflow was recorded: one workflow row, two
\* run rows, both with its id.
C6_Witness ==
    /\ Succeeded(req["s1"])
    /\ Cardinality(workflows) = 1
    /\ Cardinality(workflow_runs) = 2
    /\ \A x \in workflow_runs : x.workflow_id = req["s1"].resp.workflow_id

\* C7: after a successful createApproval the tables hold one approval row
\* with the id of the response, pending and of the caller's organization,
\* the payload's assets under that id in the payload's order, and one event,
\* 'created', counting them; a session holds assets only after its approval
\* and an event only after all of its assets, all under its own approval id;
\* the commit adds one approval, n assets and one event.
C7_ApprovalRows ==
    /\ [](\A r \in Slots :
            /\ (req[r].kind = "approval" /\ Succeeded(req[r])) =>
                  /\ \E a \in approvals :
                        /\ {b \in approvals : b.id = req[r].resp.approval_id} = {a}
                        /\ a.status = "pending"
                        /\ a.type = req[r].payload.type
                        /\ a.org_id = req[r].auth.org_id
                  /\ RolesById(AssetsOf(req[r].resp.approval_id)) = req[r].payload.assets
                  /\ \E e \in approval_events :
                        /\ EventsOf(req[r].resp.approval_id) = {e}
                        /\ e.event = "created"
                        /\ e.asset_count = Len(req[r].payload.assets)
            /\ \A x \in req[r].tx.approvals : x.id = req[r].approval_id
            /\ \A x \in req[r].tx.approval_assets : x.approval_id = req[r].approval_id
            /\ \A x \in req[r].tx.approval_events : x.approval_id = req[r].approval_id
            /\ req[r].tx.approval_assets # {} => req[r].tx.approvals # {}
            /\ RolesById(req[r].tx.approval_assets)
                  = SubSeq(req[r].payload.assets, 1, Cardinality(req[r].tx.approval_assets))
            /\ req[r].tx.approval_events # {} =>
                  /\ req[r].tx.approvals # {}
                  /\ Cardinality(req[r].tx.approval_assets) = Len(req[r].payload.assets))
    /\ [][\A r \in Slots :
            (req[r].pc = "ap_commit" /\ Succeeded(req'[r]))
            => /\ Cardinality(approvals') = Cardinality(approvals) + 1
               /\ Cardinality(approval_assets')
                     = Cardinality(approval_assets) + Len(req[r].payload.assets)
               /\ Cardinality(approval_events') = Cardinality(approval_events) + 1]_vars

\* An approval with two assets is committed, and an asset of another approval
\* was inserted between its two.
C7_Witness ==
    \E r \in Slots :
        /\ req[r].kind = "approval"
        /\ Succeeded(req[r])
        /\ Len(req[r].payload.assets) = 2
        /\ \E a1 \in AssetsOf(req[r].resp.approval_id),
              a2 \in AssetsOf(req[r].resp.approval_id),
              other \in approval_assets :
              /\ other.approval_id # req[r].resp.approval_id
              /\ a1.id < other.id
              /\ other.id < a2.id

\* Round-half-even of micros / 1000: round() of the difference in milliseconds.
RoundedMillis(micros) ==
    LET q == micros \div MillisPerSecond
        rem == micros % MillisPerSecond
    IN  IF 2 * rem < MillisPerSecond THEN q
        ELSE IF 2 * rem > MillisPerSecond THEN q + 1
        ELSE IF q % 2 = 0 THEN q ELSE q + 1

\* C8: the duration_ms of a run row is null when ended_at is missing and is
\* otherwise the difference of the timestamps rounded to the nearest whole
\* millisecond.
C8_DurationRounded ==
    \A x \in workflow_runs :
        x.duration_ms = IF x.ended_at = None THEN None
                        ELSE Some(RoundedMillis(x.ended_at[1] - x.started_at))

\* C9: in renderPdf nothing is released before the finally block; once it is
\* through, the context, if it was acquired, had its release attempted, then
\* the browser, if it was acquired, had its own, whatever the first attempt
\* did; the request ends with 500 exactly when a call of the engine failed,
\* never for a failed release.
C9_RenderReleases ==
    \A r \in Slots :
        req[r].kind = "render" =>
           /\ req[r].pc \in RenderStages => req[r].releases = <<>>
           /\ req[r].pc = "browser_close" =>
                 req[r].releases = IF req[r].context = "unbound" THEN <<>> ELSE <<"context">>
           /\ (req[r].pc = "render_exit" \/ (req[r].pc = "done" /\ req[r].auth.ok)) =>
                 /\ req[r].releases =
                       (IF req[r].context = "unbound" THEN <<>> ELSE <<"context">>)
                       \o (IF req[r].browser = "unbound" THEN <<>> ELSE <<"browser">>)
                 /\ req[r].failed \in RenderStages \cup {"none"}
           /\ (req[r].pc = "done" /\ req[r].auth.ok) =>
                 /\ req[r].failed = "none" <=> req[r].resp.status = 200
                 /\ req[r].failed # "none" <=> req[r].resp.status = 500

\* set_content failed, the release of the context failed too, the browser was
\* released all the same, and the caller got the 500 of the rendering failure.
C9_Witness ==
    /\ req["s1"].pc = "done"
    /\ req["s1"].failed = "set_content"
    /\ req["s1"].context = "open"
    /\ req["s1"].browser = "closed"
    /\ req["s1"].releases = <<"context", "browser">>
    /\ req["s1"].resp.status = 500

\* C10: every committed run references a committed workflow; the workflow a
\* request created is committed before its run is inserted, and stays so when
\* the run insert or the run commit fails; rows of a session are in no table
\* before its commit; a failing database call changes no table.
C10_WorkflowCommittedApart ==
    /\ [](/\ \A x \in workflow_runs : \E w \in workflows : w.id = x.workflow_id
          /\ \A r \in Slots :
               /\ (/\ req[r].kind = "workflow_run"
                   /\ req[r].created
                   /\ \/ req[r].pc \in {"run_insert", "run_commit"}
                      \/ req[r].pc = "done" /\ req[r].failed \in {"run_insert", "run_commit"})
                  => \E w \in workflows :
                        /\ w.id = req[r].workflow_id
                        /\ w.org_id = req[r].auth.org_id
                        /\ w.name = req[r].payload.workflow_name
               /\ \A x \in req[r].tx.workflow_runs :
                     \A y \in workflow_runs : y.id # x.id)
    /\ [][\A r \in Slots :
            (req[r].pc \in DbSteps /\ req'[r].pc = "done" /\ req'[r].resp.status = 500)
            => UNCHANGED tables]_vars

\* The run insert of the request that created a workflow failed: the workflow
\* row is committed and no run references it.
C10_Witness ==
    \E r \in Slots :
        /\ req[r].pc = "done"
        /\ req[r].failed = "run_insert"
        /\ req[r].created
        /\ \E w \in workflows : w.id = req[r].workflow_id
        /\ \A x \in workflow_runs : x.workflow_id # req[r].workflow_id

====
